---- MODULE Spec2Model ----
(***************************************************************************)
(* Gatekeeper: port assignment for probes against a NetBox registry.       *)
(*                                                                         *)
(* The registry (NetBox, reached through pynetbox) is the only durable     *)
(* state.  Each request_port call is a sequence of registry calls:         *)
(*   find_device_by_mac  (reads)      -> action Request                    *)
(*   get_max_assigned_port (read)     -> action GetMax / GetMaxFails       *)
(*   devices.create or device.save    -> action Write  / WriteFails        *)
(* The code holds no lock and the registry offers no conditional write,    *)
(* so calls served by different workers interleave between these steps.    *)
(*                                                                         *)
(* Strings are sequences of one-character strings so that lower(),         *)
(* replace() and the substring test are computed, not assumed.             *)
(***************************************************************************)
EXTENDS Integers, Sequences, FiniteSets, Bags, TLC

VARIABLES
    nb,             \* registry client built at import: "client" or "None"
    schema,         \* TRUE iff the registry exposes dcim.mac_addresses
    mac_addresses,  \* registry: MAC objects, in filter order: [mac, device]
    interfaces,     \* registry: interfaces,  in filter order: [mac, device]
    devices,        \* registry: device records, in all() order
    calls,          \* the request_port calls in flight: a bag of their locals
    out,            \* the response sent by the last step (NoResp: none sent)
    up,             \* environment: TRUE iff the registry can be reached
    arg,            \* a function of the service called on its own: the argument
    ret,            \* ... and its result (NoRet: not called)
    probe           \* the bootstrap client: position and effects of main()

vars == <<nb, schema, mac_addresses, interfaces, devices, calls, out, up, arg, ret,
          probe>>

registry == <<nb, schema, mac_addresses, interfaces, devices>>

----------------------------------------------------------------------------
(* Bounds and program constants *)

\* request_port calls that may be in flight at once
MaxCalls == 2

\* edits by hand stop once the highest port is this far above the edited one
MaxSpan == 2

DEFAULT_START_PORT == 10001

MAC_LEN == 12

----------------------------------------------------------------------------
(* Characters and strings *)

UpperCase == <<"A","B","C","D","E","F","G","N","O","P","R","T">>

LowerCase == <<"a","b","c","d","e","f","g","n","o","p","r","t">>

\* str.lower() on one character
LowerChar(c) ==
    IF \E i \in 1..Len(UpperCase) : UpperCase[i] = c
    THEN LowerCase[CHOOSE i \in 1..Len(UpperCase) : UpperCase[i] = c]
    ELSE c

\* str.lower()
Lower(s) == [i \in 1..Len(s) |-> LowerChar(s[i])]

\* str.replace(ch, '')
Remove(s, ch) == SelectSeq(s, LAMBDA c : c # ch)

\* the Python test  sub in s
Contains(sub, s) ==
    \E i \in 0..(Len(s) - Len(sub)) : SubSeq(s, i + 1, i + Len(sub)) = sub

\* ':'.join of the two-character groups of a 12-character string
JoinPairs(s) ==
    [i \in 1..(MAC_LEN + MAC_LEN \div 2 - 1) |->
        IF i % 3 = 0 THEN ":" ELSE s[i - (i \div 3)]]

\* variant: the case of the input is kept
normalize_keeping_case(mac) ==
    LET mac_clean == Remove(Remove(Remove(mac, ":"), "-"), ".")
    IN  IF Len(mac_clean) # MAC_LEN
        THEN [ok |-> FALSE, mac |-> <<>>]
        ELSE [ok |-> TRUE,  mac |-> JoinPairs(mac_clean)]

\* normalize_mac: ok = FALSE stands for the ValueError
normalize_mac(mac) ==
    LET mac_clean == Remove(Remove(Remove(Lower(mac), ":"), "-"), ".")
    IN  IF Len(mac_clean) # MAC_LEN
        THEN [ok |-> FALSE, mac |-> <<>>]
        ELSE [ok |-> TRUE,  mac |-> JoinPairs(mac_clean)]

\* f"probe-{mac_normalized.replace(':', '')}"
device_name(mac) == <<"p","r","o","b","e","-">> \o Remove(mac, ":")

----------------------------------------------------------------------------
(* Inputs *)

RawA == <<"a","a",":","b","b",":","c","c",":","d","d",":","e","e",":","f","f">>

RawAUpper == <<"A","A","-","B","B","-","C","C","-","D","D","-","E","E","-","F","F">>

RawB == <<"b","e","a","a","b","b","c","c","d","d","e","e">>

RawC == <<"0","0",":","1","1",":","2","2",":","3","3",":","4","4",":","5","5">>

RawShort == <<"a","a","b","b","c","c">>

RawWord == <<"n","o","t","-","a","-","m","a","c">>

\* 12 characters that are not a MAC address
RawNonHex == <<"g","1",":","g","1",":","g","1",":","g","1",":","g","1",":","g","1">>

RawMacs == {RawA, RawAUpper, RawB, RawC, RawShort, RawWord, RawNonHex}

\* Spellings for normalize_mac called on its own: five to seven two-character
\* groups (one of them not hexadecimal), joined by a separator or by none,
\* in lower or upper case.
Octets == { <<"c","0">>, <<"1","f">>, <<"g","1">> }

Separators == { <<>>, <<":">>, <<"-">>, <<".">>, <<" ">> }

UpperChar(c) ==
    IF \E i \in 1..Len(LowerCase) : LowerCase[i] = c
    THEN UpperCase[CHOOSE i \in 1..Len(LowerCase) : LowerCase[i] = c]
    ELSE c

RECURSIVE JoinWith(_, _, _)
JoinWith(groups, sep, i) ==
    IF i > Len(groups) THEN <<>>
    ELSE (IF i = 1 THEN <<>> ELSE sep) \o groups[i] \o JoinWith(groups, sep, i + 1)

Spell(groups, sep, upper) ==
    LET text == JoinWith(groups, sep, 1)
    IN  IF upper THEN [i \in 1..Len(text) |-> UpperChar(text[i])] ELSE text

\* aabbccddeeff
RawABare == Remove(RawA, ":")

MacInputs ==
    RawMacs \cup {RawABare} \cup
    { Spell(groups, sep, upper) :
        groups \in UNION { [1..n -> Octets] :
                              n \in (MAC_LEN \div 2 - 1)..(MAC_LEN \div 2 + 1) },
        sep \in Separators, upper \in BOOLEAN }

MacA == normalize_mac(RawA).mac

MacB == normalize_mac(RawB).mac

MacC == normalize_mac(RawC).mac

\* what normalize_mac returns for RawNonHex
MacG == normalize_mac(RawNonHex).mac

Macs == {MacA, MacB, MacC, MacG}

NoMac == <<>>

\* The registry call of the resolver that raises an unexpected error in a
\* request ("none": no call raises).
ResolverFaults == {"none", "mac_addresses", "interfaces", "cf_mac_address", "all"}

\* "every": the registry cannot be reached, every call to it raises
Fails(fault, call) == fault = call \/ fault = "every"

----------------------------------------------------------------------------
(* Registry records *)

\* custom_fields["automation_proxy_port"]: <<>> is None, <<n>> is the integer n
NoPort == <<>>

Dev(name, port, cf_mac) == [name |-> name, port |-> port, cf_mac |-> cf_mac]

\* variant: a port counts as assigned only above the start port
IsAssignedAboveFloor(port) == port # NoPort /\ port[1] > DEFAULT_START_PORT

\* if port and isinstance(port, int): the field is an integer custom field,
\* so the test is "not None and not 0"
IsAssigned(port) == port # NoPort /\ port[1] # 0

----------------------------------------------------------------------------
(* Initial registries *)

Link(mac, device) == [mac |-> mac, device |-> device]

Reg(sch, macs, ifs, devs) ==
    [schema |-> sch, mac_addresses |-> macs, interfaces |-> ifs, devices |-> devs]

\* nothing registered; the registry has no MAC objects (pre-4.0 schema)
RegEmpty == Reg(FALSE, <<>>, <<>>, <<>>)

\* ports {10001, 10002, 10005} held by devices unrelated to any probe
RegPorts ==
    Reg(TRUE, <<>>, <<>>,
        << Dev(<<"s","w","1">>, <<10001>>, NoMac),
           Dev(<<"s","w","2">>, <<10002>>, NoMac),
           Dev(<<"s","w","3">>, <<10005>>, NoMac) >>)

\* pre-4.0 schema: MacA pre-registered through an interface, no port yet;
\* MacC known by the mac_address custom field, port 10002
RegLegacy ==
    Reg(FALSE, <<>>, << Link(MacC, 0), Link(MacA, 1) >>,
        << Dev(<<"e","d","g","e">>, NoPort, NoMac),
           Dev(<<"c","o","r","e">>, <<10002>>, MacC) >>)

\* 4.0 schema: MacA registered through a MAC object, port 10003 assigned
RegMacObj ==
    Reg(TRUE, << Link(MacA, 0), Link(MacA, 1) >>, <<>>,
        << Dev(<<"r","t","r">>, <<10003>>, NoMac) >>)

\* MacC known by the mac_address custom field with port 0; a port below the floor
RegFields ==
    Reg(TRUE, <<>>, <<>>,
        << Dev(<<"l","o","w">>, <<9999>>, NoMac),
           Dev(<<"l","a","b">>, <<0>>, MacC) >>)

\* MacA pre-provisioned by hand under the naming convention, no port yet
RegNamed ==
    Reg(FALSE, <<>>, <<>>,
        << Dev(<<"P","r","o","b","e","-","A","A","-","B","B","-","C","C","-",
                 "D","D","-","E","E","-","F","F">>, NoPort, NoMac) >>)

\* 4.0 schema, every record with its port: MacA is matched by a MAC object
\* (m1), an interface (i2), the custom field (a placeholder named for MacC) and
\* the name (probe-aabbccddeeff), each a different device; MacC by the
\* interface, the custom field and the name; MacB by custom field and name
RegMixed ==
    Reg(TRUE, << Link(MacA, 1) >>, << Link(MacA, 2), Link(MacC, 2) >>,
        << Dev(<<"m","1">>, <<10001>>, NoMac),
           Dev(<<"i","2">>, <<10002>>, NoMac),
           Dev(device_name(MacC), <<10003>>, MacA),
           Dev(device_name(MacA), <<10004>>, MacC),
           Dev(<<"f","5">>, <<10005>>, MacB) >>)

Registries ==
    {RegEmpty, RegPorts, RegLegacy, RegMacObj, RegFields, RegNamed, RegMixed}

\* every device name of the model: the initial ones and the placeholders
DeviceNames ==
    UNION { { r.devices[i].name : i \in 1..Len(r.devices) } : r \in Registries }
        \cup { device_name(m) : m \in Macs }

----------------------------------------------------------------------------
(* Device Resolver: find_device_by_mac *)

\* for x in objs: if x.device: return devices.get(x.device.id)
\* (0: the loop ends without a return)
RECURSIVE FirstLinked(_, _, _)
FirstLinked(objs, mac, i) ==
    IF i > Len(objs) THEN 0
    ELSE IF objs[i].mac = mac /\ objs[i].device # 0 THEN objs[i].device
    ELSE FirstLinked(objs, mac, i + 1)

\* devices.filter(cf_mac_address=mac): the first device of the result
RECURSIVE FirstByCustomField(_, _, _)
FirstByCustomField(devs, mac, i) ==
    IF i > Len(devs) THEN 0
    ELSE IF devs[i].cf_mac = mac THEN i
    ELSE FirstByCustomField(devs, mac, i + 1)

\* mac_clean in device.name.lower().replace(':', '').replace('-', '')
NameMatches(mac_clean, name) ==
    Contains(mac_clean, Remove(Remove(Lower(name), ":"), "-"))

\* NameMatches tabulated over the MACs and device names of the model
NameMatchTable ==
    [mac \in Macs, name \in DeviceNames |-> NameMatches(Remove(mac, ":"), name)]

\* mac_clean = mac.replace(':', ''); for device in devices.all():
\*     if <name matches>: return device
RECURSIVE FirstByName(_, _, _)
FirstByName(devs, mac, i) ==
    IF i > Len(devs) THEN 0
    ELSE IF NameMatchTable[mac, devs[i].name] THEN i
    ELSE FirstByName(devs, mac, i + 1)

Found(d, by)  == [kind |-> "device", device |-> d, by |-> by, raised |-> "none", swallowed |-> "none"]

NotFound      == [kind |-> "none", device |-> 0, by |-> "none", raised |-> "none", swallowed |-> "none"]

Raised(call)  == [kind |-> "raise", device |-> 0, by |-> "none", raised |-> call, swallowed |-> "none"]

\* Strategies 3 and 4 and the final return None (lines 160-174)
FindByDeviceFields(mac, fault) ==
    IF Fails(fault, "cf_mac_address") THEN Raised("cf_mac_address")
    ELSE LET d3 == FirstByCustomField(devices, mac, 1)
         IN  IF d3 # 0 THEN Found(d3, "cf_mac_address")
             ELSE IF Fails(fault, "all") THEN Raised("all")
             ELSE LET d4 == FirstByName(devices, mac, 1)
                  IN  IF d4 # 0 THEN Found(d4, "name") ELSE NotFound

\* Strategy 2 (lines 150-158): every exception of the interface lookup is
\* caught and logged at debug level, and the search goes on.
FindByInterface(mac, fault) ==
    IF Fails(fault, "interfaces")
    THEN [FindByDeviceFields(mac, fault) EXCEPT !.swallowed = "interfaces"]
    ELSE LET d2 == FirstLinked(interfaces, mac, 1)
         IN  IF d2 # 0 THEN Found(d2, "interfaces")
             ELSE FindByDeviceFields(mac, fault)

\* variant: the AttributeError of a registry without MAC objects is not caught
find_without_skip(mac, fault) ==
    IF ~schema \/ Fails(fault, "mac_addresses") THEN Raised("mac_addresses")
    ELSE LET d1 == FirstLinked(mac_addresses, mac, 1)
         IN  IF d1 # 0 THEN Found(d1, "mac_addresses")
             ELSE FindByInterface(mac, fault)

\* variant: the device-field strategies are tried before the linked objects
find_by_fields_first(mac, fault) ==
    LET r == FindByDeviceFields(mac, fault)
    IN  IF r.kind = "device" THEN r
        ELSE IF ~schema THEN FindByInterface(mac, fault)
        ELSE IF Fails(fault, "mac_addresses") THEN Raised("mac_addresses")
        ELSE LET d1 == FirstLinked(mac_addresses, mac, 1)
             IN  IF d1 # 0 THEN Found(d1, "mac_addresses")
                 ELSE FindByInterface(mac, fault)

\* Strategy 1 (lines 137-148): AttributeError (no dcim.mac_addresses) is
\* caught; any other exception reaches the outer handler, which re-raises.
find_device_by_mac(mac, fault) ==
    IF ~schema THEN FindByInterface(mac, fault)
    ELSE IF Fails(fault, "mac_addresses") THEN Raised("mac_addresses")
    ELSE LET d1 == FirstLinked(mac_addresses, mac, 1)
         IN  IF d1 # 0 THEN Found(d1, "mac_addresses")
             ELSE FindByInterface(mac, fault)

----------------------------------------------------------------------------
(* Port Allocator: get_max_assigned_port *)

Max(a, b) == IF a >= b THEN a ELSE b

\* the for loop of lines 106-109, from device i on, with max_port so far
RECURSIVE MaxPortFrom(_, _, _)
MaxPortFrom(devs, i, max_port) ==
    IF i > Len(devs) THEN max_port
    ELSE MaxPortFrom(devs, i + 1,
            IF IsAssigned(devs[i].port) THEN Max(max_port, devs[i].port[1])
            ELSE max_port)

\* variant: the scan starts from 0 instead of DEFAULT_START_PORT - 1
get_max_from_zero == MaxPortFrom(devices, 1, 0)

\* variant: the scan starts one lower
get_max_from_lower == MaxPortFrom(devices, 1, DEFAULT_START_PORT - 2)

get_max_assigned_port == MaxPortFrom(devices, 1, DEFAULT_START_PORT - 1)

----------------------------------------------------------------------------
(* Whose record is it: the devices registered for a MAC (by a MAC object, an
   interface, the mac_address custom field, or the name probe-<mac>) *)

NamedFor(mac, name) ==
    Remove(Remove(Lower(name), ":"), "-") = Remove(device_name(mac), "-")

OwnDevicesIn(mac, macs, ifs, devs) ==
    { i \in 1..Len(devs) :
        \/ NamedFor(mac, devs[i].name)
        \/ devs[i].cf_mac = mac
        \/ \E k \in 1..Len(ifs)  : ifs[k]  = Link(mac, i)
        \/ \E k \in 1..Len(macs) : macs[k] = Link(mac, i) }

OwnDevices(mac) == OwnDevicesIn(mac, mac_addresses, interfaces, devices)

\* a port is recorded for the MAC's own device
OwnPort(mac) == \E i \in OwnDevices(mac) : IsAssigned(devices[i].port)

----------------------------------------------------------------------------
(* State of the calls *)

\* locals of a request_port call between its registry calls
Call(pc, mac, device, new_port) ==
    [pc |-> pc, mac |-> mac, device |-> device, new_port |-> new_port]

\* PortResponse (status 200) and the HTTP error answers; path names what the
\* call did: "existing", "update", "create", or where it failed
Response(st, mac, port, existing, name, path) ==
    [status |-> st, mac |-> mac, port |-> port, existing |-> existing,
     device_name |-> name, path |-> path]

NoResp == Response(0, NoMac, 0, FALSE, <<>>, "none")

Error(st, mac, path) == Response(st, mac, 0, FALSE, <<>>, path)

\* the answer of /health: status "healthy", netbox_connected, timestamp (the
\* fields of a port response are blank)
HealthResponse(connected) ==
    [status |-> 200, mac |-> NoMac, port |-> 0, existing |-> FALSE,
     device_name |-> <<>>, path |-> "healthy", netbox_connected |-> connected]

\* no function was called on its own
NoArg == <<>>

NoRet == [ok |-> FALSE, mac |-> <<"-">>]

\* what a response holds under 'port': an integer, true/false, a text, or
\* nothing; "error": the request failed or was answered 4xx/5xx
PortData(kind, value) == [kind |-> kind, value |-> value]

NoPortData == PortData("none", 0)

\* the bootstrap client before main() starts: nothing run, nothing done
\* (rc -1: main has not returned)
NoProbe ==
    [pc |-> "off", awx_url |-> FALSE, key_on_disk |-> FALSE, ran |-> <<>>,
     raised |-> FALSE, mac |-> <<>>, proxy_port |-> NoPortData, service |-> NoPortData,
     started |-> FALSE, posted |-> FALSE, marker |-> FALSE, rc |-> -1]

Init ==
    /\ nb \in {"client", "None"}
    /\ \E r \in Registries :
        /\ schema = r.schema
        /\ mac_addresses = r.mac_addresses
        /\ interfaces = r.interfaces
        /\ devices = r.devices
    /\ calls = EmptyBag
    /\ out = NoResp
    /\ up = TRUE
    /\ arg = NoArg
    /\ ret = NoRet
    /\ probe = NoProbe

----------------------------------------------------------------------------
(* request_port *)

\* normalize_mac on the inputs of the model
Normalized == [raw \in RawMacs |-> normalize_mac(raw)]

\* The registry rejects a create whose name is already taken (NetBox: device
\* names are unique within a site; all pending devices share one site).
NameTaken(name) == \E i \in 1..Len(devices) : devices[i].name = name

\* variant: a MAC answered in the previous response is answered from it
RequestCached(raw, fault, limit) ==
    /\ BagCardinality(calls) < limit
    /\ UNCHANGED registry
    /\ LET n == Normalized[raw] IN
       IF ~n.ok
       THEN out' = Error(400, NoMac, "invalid") /\ calls' = calls
       ELSE IF nb = "None"
       THEN out' = Error(503, n.mac, "unavailable") /\ calls' = calls
       ELSE IF out.status = 200 /\ out.mac = n.mac
       THEN /\ out' = Response(200, n.mac, out.port, TRUE, out.device_name, "existing")
            /\ calls' = calls
       ELSE LET r == find_device_by_mac(n.mac, IF up THEN fault ELSE "every") IN
            IF r.kind = "raise"
            THEN out' = Error(500, n.mac, "resolve") /\ calls' = calls
            ELSE IF r.kind = "device" /\ IsAssigned(devices[r.device].port)
            THEN /\ out' = Response(200, n.mac, devices[r.device].port[1], TRUE,
                                    devices[r.device].name, "existing")
                 /\ calls' = calls
            ELSE /\ calls' = calls (+) SetToBag({Call("max", n.mac, r.device, 0)})
                 /\ out' = NoResp

\* Lines 218-254: validation, the connection check, resolution, and the
\* read path.  find_device_by_mac is called outside the try of line 257, so
\* what it raises reaches global_exception_handler (500).
\* limit: how many calls the deployment serves at once.
Request(raw, fault, limit) ==
    /\ BagCardinality(calls) < limit
    /\ UNCHANGED registry
    /\ LET n == Normalized[raw] IN
       IF ~n.ok
       THEN out' = Error(400, NoMac, "invalid") /\ calls' = calls
       ELSE IF nb = "None"
       THEN out' = Error(503, n.mac, "unavailable") /\ calls' = calls
       ELSE LET r == find_device_by_mac(n.mac, IF up THEN fault ELSE "every") IN
            IF r.kind = "raise"
            THEN out' = Error(500, n.mac, "resolve") /\ calls' = calls
            ELSE IF r.kind = "device" /\ IsAssigned(devices[r.device].port)
            THEN /\ out' = Response(200, n.mac, devices[r.device].port[1], TRUE,
                                    devices[r.device].name, "existing")
                 /\ calls' = calls
            ELSE /\ calls' = calls (+) SetToBag({Call("max", n.mac, r.device, 0)})
                 /\ out' = NoResp

\* Lines 258-259: max_port = get_max_assigned_port(); new_port = max_port + 1
GetMax(c) ==
    /\ c.pc = "max"
    /\ up
    /\ calls' = (calls (-) SetToBag({c}))
                  (+) SetToBag({Call("write", c.mac, c.device, get_max_assigned_port + 1)})
    /\ out' = NoResp
    /\ UNCHANGED registry

\* devices.all() raises: line 115 re-raises, line 297 answers 500
GetMaxFails(c) ==
    /\ c.pc = "max"
    /\ calls' = calls (-) SetToBag({c})
    /\ out' = Error(500, c.mac, "max")
    /\ UNCHANGED registry

\* variant: a placeholder is created even when a device was resolved
WriteAlwaysCreates(c) ==
    /\ c.pc = "write"
    /\ up
    /\ calls' = calls (-) SetToBag({c})
    /\ UNCHANGED <<nb, schema, mac_addresses, interfaces>>
    /\ IF NameTaken(device_name(c.mac))
       THEN /\ devices' = devices
            /\ out' = Error(500, c.mac, "write")
       ELSE /\ devices' = Append(devices, Dev(device_name(c.mac), <<c.new_port>>, NoMac))
            /\ out' = Response(200, c.mac, c.new_port, FALSE,
                               device_name(c.mac), "create")

\* variant: the resolved device is updated and a placeholder is created too
WriteUpdatesAndCreates(c) ==
    /\ c.pc = "write"
    /\ up
    /\ calls' = calls (-) SetToBag({c})
    /\ UNCHANGED <<nb, schema, mac_addresses, interfaces>>
    /\ IF c.device # 0
       THEN /\ devices' =
                 IF NameTaken(device_name(c.mac))
                 THEN [devices EXCEPT ![c.device].port = <<c.new_port>>]
                 ELSE Append([devices EXCEPT ![c.device].port = <<c.new_port>>],
                             Dev(device_name(c.mac), <<c.new_port>>, NoMac))
            /\ out' = Response(200, c.mac, c.new_port, FALSE,
                               devices[c.device].name, "update")
       ELSE IF NameTaken(device_name(c.mac))
       THEN /\ devices' = devices
            /\ out' = Error(500, c.mac, "write")
       ELSE /\ devices' = Append(devices, Dev(device_name(c.mac), <<c.new_port>>, NoMac))
            /\ out' = Response(200, c.mac, c.new_port, FALSE,
                               device_name(c.mac), "create")

\* Lines 267-295: save() on the resolved device, or devices.create
Write(c) ==
    /\ c.pc = "write"
    /\ up
    /\ calls' = calls (-) SetToBag({c})
    /\ UNCHANGED <<nb, schema, mac_addresses, interfaces>>
    /\ IF c.device # 0
       THEN /\ devices' = [devices EXCEPT ![c.device].port = <<c.new_port>>]
            /\ out' = Response(200, c.mac, c.new_port, FALSE,
                               devices[c.device].name, "update")
       ELSE IF NameTaken(device_name(c.mac))
       THEN /\ devices' = devices
            /\ out' = Error(500, c.mac, "write")
       ELSE /\ devices' = Append(devices, Dev(device_name(c.mac), <<c.new_port>>, NoMac))
            /\ out' = Response(200, c.mac, c.new_port, FALSE,
                               device_name(c.mac), "create")

\* variant: after a failed write the client is dropped
WriteFailsDropsClient(c) ==
    /\ c.pc = "write"
    /\ calls' = calls (-) SetToBag({c})
    /\ out' = Error(500, c.mac, "write")
    /\ nb' = "None"
    /\ UNCHANGED <<schema, mac_addresses, interfaces, devices>>

\* variant: the port put on the device object before save() stays on the
\* record when save() raises
WriteFailsKeepsPort(c) ==
    /\ c.pc = "write"
    /\ calls' = calls (-) SetToBag({c})
    /\ out' = Error(500, c.mac, "write")
    /\ UNCHANGED <<nb, schema, mac_addresses, interfaces>>
    /\ devices' = IF c.device # 0
                  THEN [devices EXCEPT ![c.device].port = <<c.new_port>>]
                  ELSE devices

\* the registry write raises and takes no effect: line 297 answers 500
WriteFails(c) ==
    /\ c.pc = "write"
    /\ calls' = calls (-) SetToBag({c})
    /\ out' = Error(500, c.mac, "write")
    /\ UNCHANGED registry

\* variant: the health check asks the registry and fails when it is down
health_check_probing ==
    /\ out' = IF up THEN HealthResponse(nb # "None") ELSE Error(500, NoMac, "health")
    /\ UNCHANGED <<registry, calls>>

\* health_check (lines 180-189): no registry call; the flag is  nb is not None
health_check ==
    /\ out' = HealthResponse(nb # "None")
    /\ UNCHANGED <<registry, calls>>

\* The operations of the service.  limit: how many request_port calls the
\* deployment serves at once; transient: whether single registry calls may
\* raise while the registry is reachable (when it is not, all of them do).
Serve(limit, raws, transient) ==
    /\ \/ \E raw \in raws, fault \in (IF transient THEN ResolverFaults ELSE {"none"}) :
              Request(raw, fault, limit)
       \/ \E c \in BagToSet(calls) : GetMax(c)
       \/ \E c \in BagToSet(calls) : (transient \/ ~up) /\ GetMaxFails(c)
       \/ \E c \in BagToSet(calls) : Write(c)
       \/ \E c \in BagToSet(calls) : (transient \/ ~up) /\ WriteFails(c)
       \/ health_check
    /\ UNCHANGED <<up, arg, ret, probe>>

\* normalize_mac called on its own with the argument arg
Normalize ==
    /\ arg # NoArg /\ ret = NoRet
    /\ ret' = normalize_mac(arg)
    /\ UNCHANGED <<registry, calls, out, up, arg, probe>>

\* the value normalize_mac returned is passed to it again
Renormalize ==
    /\ ret.ok /\ ret.mac # arg
    /\ arg' = ret.mac
    /\ ret' = NoRet
    /\ UNCHANGED <<registry, calls, out, up, probe>>

\* environment: the registry becomes unreachable, or reachable again
RegistryDown ==
    /\ up /\ up' = FALSE
    /\ out' = NoResp
    /\ UNCHANGED <<registry, calls, arg, ret, probe>>

RegistryUp ==
    /\ ~up /\ up' = TRUE
    /\ out' = NoResp
    /\ UNCHANGED <<registry, calls, arg, ret, probe>>

\* the requests of two probes (MacA in two spellings, MacC) and an invalid one
PairRaws == {RawA, RawAUpper, RawC, RawShort}

\* calls served by several workers interleave at every registry call
Next == Serve(MaxCalls, PairRaws, TRUE)

Spec == Init /\ [][Next]_vars

\* one request at a time, each call run to its response before the next,
\* for every input of the model, with registry outages
NextSeq ==
    \/ Serve(1, RawMacs, TRUE)
    \/ RegistryDown
    \/ RegistryUp

SpecSeq == Init /\ [][NextSeq]_vars

\* the port an operator sets by hand
EditedPort == <<10050>>

\* environment, between two calls: an operator changes the port of a record
EditPort(i) ==
    /\ calls = EmptyBag
    /\ get_max_assigned_port < EditedPort[1] + MaxSpan
    /\ devices[i].port # EditedPort
    /\ devices' = [devices EXCEPT ![i].port = EditedPort]
    /\ UNCHANGED <<nb, schema, mac_addresses, interfaces, calls, out, up, arg, ret, probe>>

\* the links that remain when device i is deleted (its own go with it)
WithoutDevice(objs, i) ==
    LET kept == SelectSeq(objs, LAMBDA x : x.device # i)
    IN  [k \in 1..Len(kept) |->
            IF kept[k].device > i
            THEN Link(kept[k].mac, kept[k].device - 1) ELSE kept[k]]

\* environment, between two calls: an operator deletes a record
RemoveDevice(i) ==
    /\ calls = EmptyBag
    /\ get_max_assigned_port < EditedPort[1] + MaxSpan
    /\ devices' = SubSeq(devices, 1, i - 1) \o SubSeq(devices, i + 1, Len(devices))
    /\ mac_addresses' = WithoutDevice(mac_addresses, i)
    /\ interfaces' = WithoutDevice(interfaces, i)
    /\ UNCHANGED <<nb, schema, calls, out, up, arg, ret, probe>>

EditRegistries == {RegEmpty, RegLegacy, RegMacObj}

InitEdit ==
    /\ nb = "client"
    /\ \E r \in EditRegistries :
        /\ schema = r.schema
        /\ mac_addresses = r.mac_addresses
        /\ interfaces = r.interfaces
        /\ devices = r.devices
    /\ calls = EmptyBag
    /\ out = NoResp
    /\ up = TRUE
    /\ arg = NoArg
    /\ ret = NoRet
    /\ probe = NoProbe

EditRaws == {RawA, RawAUpper, RawC}

\* one request at a time, with the registry edited by hand between calls
NextEdit ==
    \/ Serve(1, EditRaws, FALSE)
    \/ \E i \in 1..Len(devices) : EditPort(i)
    \/ \E i \in 1..Len(devices) : RemoveDevice(i)

SpecEdit == InitEdit /\ [][NextEdit]_vars

\* the requests of three probes, each retried by its probe for ever
RetryRaws == {RawA, RawB, RawC}

\* one request at a time; registry calls fail only while the registry is down
NextRetry ==
    \/ Serve(1, RetryRaws, FALSE)
    \/ RegistryDown
    \/ RegistryUp

\* Fairness: a call that has begun runs on to its end (the handler has no
\* blocking point of its own), and every probe keeps retrying its request.
SpecRetry ==
    /\ Init
    /\ [][NextRetry]_vars
    /\ WF_vars(\E c \in BagToSet(calls) : GetMax(c) /\ UNCHANGED <<up, arg, ret, probe>>)
    /\ WF_vars(\E c \in BagToSet(calls) : Write(c) /\ UNCHANGED <<up, arg, ret, probe>>)
    /\ \A raw \in RetryRaws :
          SF_vars(Request(raw, "none", 1) /\ UNCHANGED <<up, arg, ret, probe>>)

\* The bootstrap client (src/bootstrap_probe.py).  main() runs these steps in
\* this order; each is one action, its outcome chosen by the environment.
Steps ==
    <<"read_config", "get_mac_address", "request_proxy_port",
      "generate_ssh_key_pair", "create_autossh_service", "call_awx_callback",
      "write_bootstrap_complete">>

\* the step has run and returned: main goes on to the next step, or returns 0
\* after the last one
Returned(p, step) ==
    [p EXCEPT !.ran = Append(p.ran, step),
              !.pc  = IF Len(p.ran) + 1 < Len(Steps)
                      THEN Steps[Len(p.ran) + 2] ELSE "returned",
              !.rc  = IF Len(p.ran) + 1 < Len(Steps) THEN -1 ELSE 0]

\* the step has run and raised: except Exception: return 1
Raised1(p, step) ==
    [p EXCEPT !.ran = Append(p.ran, step), !.raised = TRUE,
              !.pc = "returned", !.rc = 1]

\* what the Gatekeeper may answer under 'port', or an HTTP/transport error
PortReplies ==
    { PortData("error", 0), PortData("none", 0), PortData("text", 10001),
      PortData("int", 0), PortData("int", 10001), PortData("int", 10002),
      PortData("bool", 0), PortData("bool", 1) }

\* variant: any value found under 'port' is taken
IsAnyPort(port) == port.kind # "error"

\* not (not port or not isinstance(port, int)); a bool is an int in Python
IsPort(port) == port.kind \in {"int", "bool"} /\ port.value # 0

\* Step 1: a config file with tenant information is found, or RuntimeError
read_config ==
    /\ probe.pc = "read_config"
    /\ \E found \in BOOLEAN :
          probe' = IF found THEN Returned(probe, "read_config")
                   ELSE Raised1(probe, "read_config")
    /\ UNCHANGED <<registry, calls, out, up, arg, ret>>

\* Step 2: the MAC address of eth0 is read as the system spells it, or
\* RuntimeError
get_mac_address ==
    /\ probe.pc = "get_mac_address"
    /\ \E found \in BOOLEAN, address \in {RawA, RawAUpper} :
          probe' = IF found
                   THEN [Returned(probe, "get_mac_address") EXCEPT !.mac = address]
                   ELSE Raised1(probe, "get_mac_address")
    /\ UNCHANGED <<registry, calls, out, up, arg, ret>>

\* Step 3: GET /provision/request-port; the port of the answer is checked
request_proxy_port ==
    /\ probe.pc = "request_proxy_port"
    /\ \E reply \in PortReplies :
          probe' = IF reply.kind # "error" /\ IsPort(reply)
                   THEN [Returned(probe, "request_proxy_port")
                            EXCEPT !.proxy_port = reply]
                   ELSE Raised1(probe, "request_proxy_port")
    /\ UNCHANGED <<registry, calls, out, up, arg, ret>>

\* Step 4: the key pair on disk is read, or one is generated and written
generate_ssh_key_pair ==
    /\ probe.pc = "generate_ssh_key_pair"
    /\ \E written \in BOOLEAN :
          probe' = IF probe.key_on_disk
                   THEN Returned(probe, "generate_ssh_key_pair")
                   ELSE IF written
                   THEN [Returned(probe, "generate_ssh_key_pair")
                            EXCEPT !.key_on_disk = TRUE]
                   ELSE Raised1(probe, "generate_ssh_key_pair")
    /\ UNCHANGED <<registry, calls, out, up, arg, ret>>

\* Step 5: the unit file autossh-probe-<port>.service is written, then
\* systemctl daemon-reload, enable, start; each of them may fail
create_autossh_service ==
    /\ probe.pc = "create_autossh_service"
    /\ \E file \in BOOLEAN, systemctl \in BOOLEAN :
          probe' = IF file /\ systemctl
                   THEN [Returned(probe, "create_autossh_service")
                            EXCEPT !.service = probe.proxy_port, !.started = TRUE]
                   ELSE IF file
                   THEN [Raised1(probe, "create_autossh_service")
                            EXCEPT !.service = probe.proxy_port]
                   ELSE Raised1(probe, "create_autossh_service")
    /\ UNCHANGED <<registry, calls, out, up, arg, ret>>

\* Step 6: without AWX_CALLBACK_URL the step returns at once; else the
\* callback is posted, and an error answer raises
call_awx_callback ==
    /\ probe.pc = "call_awx_callback"
    /\ \E accepted \in BOOLEAN :
          probe' = IF ~probe.awx_url
                   THEN Returned(probe, "call_awx_callback")
                   ELSE IF accepted
                   THEN [Returned(probe, "call_awx_callback") EXCEPT !.posted = TRUE]
                   ELSE Raised1(probe, "call_awx_callback")
    /\ UNCHANGED <<registry, calls, out, up, arg, ret>>

\* Step 7: the marker is written; a failure is logged and not raised
write_bootstrap_complete ==
    /\ probe.pc = "write_bootstrap_complete"
    /\ \E written \in BOOLEAN :
          probe' = [Returned(probe, "write_bootstrap_complete")
                       EXCEPT !.marker = written]
    /\ UNCHANGED <<registry, calls, out, up, arg, ret>>

\* main() is started on a probe: with or without a callback URL configured,
\* with or without a key pair left by an earlier boot
InitProbe ==
    /\ nb = "client"
    /\ schema = RegEmpty.schema
    /\ mac_addresses = RegEmpty.mac_addresses
    /\ interfaces = RegEmpty.interfaces
    /\ devices = RegEmpty.devices
    /\ calls = EmptyBag
    /\ out = NoResp
    /\ up = TRUE
    /\ arg = NoArg
    /\ ret = NoRet
    /\ \E url \in BOOLEAN, key \in BOOLEAN :
          probe = [NoProbe EXCEPT !.pc = Steps[1],
                                  !.awx_url = url, !.key_on_disk = key]

NextProbe ==
    \/ read_config
    \/ get_mac_address
    \/ request_proxy_port
    \/ generate_ssh_key_pair
    \/ create_autossh_service
    \/ call_awx_callback
    \/ write_bootstrap_complete

SpecProbe == InitProbe /\ [][NextProbe]_vars

\* Texts are sequences of words.  The registry token of a run, and what an
\* exception raised by a registry call says: up to three words, any of which
\* may be the token (a URL or header echoed by the HTTP library).
Tokens == {"token-1", "token-2", "token-3"}

TokenSlot == "<token>"

ExcWords == {"timeout", "refused", "403", TokenSlot}

ExcTemplates == UNION { [1..n -> ExcWords] : n \in 1..3 }

\* str(e) for an exception of this template in a run with this token
ExcText(template, token) ==
    [i \in 1..Len(template) |->
        IF template[i] = TokenSlot THEN token ELSE template[i]]

\* lines 297-302: HTTPException(500, detail=f"Failed to assign port: {e}")
assign_failure_response(e) ==
    [status |-> 500, detail |-> <<"Failed to assign port: ">> \o e]

\* lines 305-314: JSONResponse(500, {"error": ..., "detail": str(exc)})
global_exception_handler(exc) ==
    [status |-> 500, error |-> <<"Internal server error">>, detail |-> exc]

HandlerResponse(a, token) ==
    IF a.handler = "request_port"
    THEN assign_failure_response(ExcText(a.template, token))
    ELSE global_exception_handler(ExcText(a.template, token))

\* the except clause of request_port answers an exception of the write phase
AssignFailure ==
    /\ ret = NoRet /\ arg.handler = "request_port"
    /\ ret' = assign_failure_response(ExcText(arg.template, arg.token))
    /\ UNCHANGED <<registry, calls, out, up, arg, probe>>

\* global_exception_handler answers an exception of find_device_by_mac
Unhandled ==
    /\ ret = NoRet /\ arg.handler = "global_exception_handler"
    /\ ret' = global_exception_handler(ExcText(arg.template, arg.token))
    /\ UNCHANGED <<registry, calls, out, up, arg, probe>>

InitLeak ==
    /\ nb = "client"
    /\ schema = RegEmpty.schema
    /\ mac_addresses = RegEmpty.mac_addresses
    /\ interfaces = RegEmpty.interfaces
    /\ devices = RegEmpty.devices
    /\ calls = EmptyBag
    /\ out = NoResp
    /\ up = TRUE
    /\ arg \in [handler : {"request_port", "global_exception_handler"},
                 template : ExcTemplates, token : Tokens]
    /\ ret = NoRet
    /\ probe = NoProbe

NextLeak == AssignFailure \/ Unhandled

\* the error responses for every exception text and token
SpecLeak == InitLeak /\ [][NextLeak]_vars

\* normalize_mac on its own, on every spelling of MacInputs
InitMac ==
    /\ nb = "client"
    /\ schema = RegEmpty.schema
    /\ mac_addresses = RegEmpty.mac_addresses
    /\ interfaces = RegEmpty.interfaces
    /\ devices = RegEmpty.devices
    /\ calls = EmptyBag
    /\ out = NoResp
    /\ up = TRUE
    /\ arg \in MacInputs
    /\ ret = NoRet
    /\ probe = NoProbe

NextMac == Normalize \/ Renormalize

SpecMac == InitMac /\ [][NextMac]_vars

----------------------------------------------------------------------------
(* Vocabulary of the properties *)

MinOf(S) == CHOOSE x \in S : \A y \in S : x <= y

MaxOf(S) == CHOOSE x \in S : \A y \in S : y <= x

\* positions of the links of objs that lead from mac to a device
LinkedAt(objs, mac) ==
    { k \in 1..Len(objs) : objs[k].mac = mac /\ objs[k].device # 0 }

CustomFieldAt(mac) == { i \in 1..Len(devices) : devices[i].cf_mac = mac }

NameAt(mac) ==
    { i \in 1..Len(devices) : NameMatches(Remove(mac, ":"), devices[i].name) }

\* the ports defined on device records (zero and values below the floor too)
DefinedPorts ==
    { devices[i].port[1] : i \in { k \in 1..Len(devices) : devices[k].port # NoPort } }

\* a step in which the in-flight call c ends with the response out'
Ends(c) == calls' = calls (-) SetToBag({c})

\* a step in which a request for mac is taken on for allocation, resolved to
\* device d (0: not resolved)
Accepts(mac, d) == calls' = calls (+) SetToBag({Call("max", mac, d, 0)})

\* a request with this input, served without any resolver fault
Served(raw) == Request(raw, "none", MaxCalls)

ValidRaws == { raw \in RawMacs : Normalized[raw].ok }

----------------------------------------------------------------------------
(* C1: two overlapping first-time requests for distinct MACs never return the
   same port.  Stated on the responses: when two requests that both found no
   device (and so created one) are answered one right after the other for
   distinct MACs, the two ports differ. *)
C1_DistinctPortsForDistinctMacs ==
    [][ (out.path = "create" /\ out'.path = "create" /\ out.mac # out'.mac)
            => out.port # out'.port ]_vars

(* C2: port uniqueness is an invariant of the registry: the defined ports of
   the device records are pairwise distinct in every reachable state. *)
C2_PortsPairwiseDistinct ==
    \A i, j \in 1..Len(devices) :
        (i # j /\ devices[i].port # NoPort /\ devices[j].port # NoPort)
            => devices[i].port # devices[j].port

(* C3: for a MAC with no record of its own in the registry, whatever else the
   registry holds, two calls made one after the other with no registry
   failure answer existing=false and then existing=true with the same port:
   the first call is not answered from an existing record, and the call that
   directly follows a fresh allocation for the same MAC returns that port
   with existing=true. *)
C3_UnseenFalseThenTrue ==
    [][ \A raw \in ValidRaws :
          LET mac == Normalized[raw].mac IN
          (nb = "client" /\ up /\ Served(raw)) =>
             /\ (OwnDevices(mac) = {} => out'.path # "existing")
             /\ (out.status = 200 /\ ~out.existing /\ out.mac = mac)
                   => (out'.status = 200 /\ out'.existing /\ out'.port = out.port) ]_vars

(* C4: every new allocation returns max(M, floor - 1) + 1, M the maximum
   defined port over all device records at the time the call reads them:
   the port a call computes is that value, and the port it returns with
   existing=false is the port it computed. *)
C4_NextPortIsMaxPlusOne ==
    [][ /\ \A c \in BagToSet(calls), c2 \in BagToSet(calls') :
              (c.pc = "max" /\ c2.pc = "write" /\ calls' = (calls (-) SetToBag({c})) (+) SetToBag({c2}))
                  => c2.new_port = MaxOf(DefinedPorts \cup {DEFAULT_START_PORT - 1}) + 1
        /\ \A c \in BagToSet(calls) :
              (c.pc = "write" /\ Ends(c) /\ out'.status = 200)
                  => (out'.port = c.new_port /\ ~out'.existing) ]_vars

\* ports {10001, 10002, 10005} gave 10006, and no gap was filled
C4_Witness ==
    /\ out.path = "create" /\ out.port = 10006
    /\ {10001, 10002, 10005, 10006} = DefinedPorts

(* C5: when the MAC resolves to a device record that has no port, the call
   is taken on for that record, and its successful end writes the new port
   onto that record and creates none: the number of records and every name
   are unchanged, the response names that record, and existing=false. *)
C5_UnportedRecordUpdatedInPlace ==
    [][ /\ \A raw \in ValidRaws, fault \in ResolverFaults :
              LET mac == Normalized[raw].mac
                  r   == find_device_by_mac(mac, fault)
              IN  (nb = "client" /\ up /\ r.kind = "device" /\ devices[r.device].port = NoPort
                      /\ Request(raw, fault, MaxCalls))
                      => Accepts(mac, r.device)
        /\ \A c \in BagToSet(calls) :
              (c.pc = "write" /\ c.device # 0 /\ Ends(c) /\ out'.status = 200)
                  => /\ Len(devices') = Len(devices)
                     /\ \A i \in 1..Len(devices) : devices'[i].name = devices[i].name
                     /\ devices'[c.device].port = <<out'.port>>
                     /\ out'.device_name = devices[c.device].name
                     /\ ~out'.existing ]_vars

\* the pre-registered device "edge" of RegLegacy received a port in place
C5_Witness ==
    /\ out.path = "update" /\ out.device_name = <<"e","d","g","e">>
    /\ Len(devices) = 2 /\ devices[1].port = <<out.port>>

\* the records of a MAC's own that carry a port, in the registry given
PortedOwn(m, macs, ifs, devs) ==
    { i \in OwnDevicesIn(m, macs, ifs, devs) : devs[i].port # NoPort }

(* C6: at any time at most one device record with a defined port exists for
   a given MAC: no step of the service takes a MAC from at most one ported
   record of its own to more than one. *)
C6_AtMostOnePortedRecordPerMac ==
    [][ \A m \in Macs :
          Cardinality(PortedOwn(m, mac_addresses, interfaces, devices)) <= 1
            => Cardinality(PortedOwn(m, mac_addresses', interfaces', devices')) <= 1 ]_vars

(* C7: existing=true in a response means that a port was already recorded in
   the registry for the requested MAC's own device when the request began. *)
C7_ExistingMeansOwnPortRecorded ==
    [][ \A raw \in ValidRaws :
          (nb = "client" /\ Served(raw) /\ out'.status = 200 /\ out'.existing)
              => OwnPort(Normalized[raw].mac) ]_vars

(* C8 as claimed: when the MAC resolves to a device with a defined port, the
   call returns that port with existing=true and writes nothing. *)
C8_DefinedPortReturned ==
    [][ \A raw \in ValidRaws :
          LET mac == Normalized[raw].mac
              r   == find_device_by_mac(mac, "none")
          IN  (nb = "client" /\ up /\ Served(raw)
                  /\ r.kind = "device" /\ devices[r.device].port # NoPort)
                  => /\ out' = Response(200, mac, devices[r.device].port[1], TRUE,
                                        devices[r.device].name, "existing")
                     /\ calls' = calls
                     /\ registry' = registry ]_vars

(* C8 as amended: when the MAC resolves to a device with a defined non-zero
   port, the call returns that port with existing=true, ends, and the
   registry is left as it was. *)
C8_NonZeroPortReturned ==
    [][ \A raw \in ValidRaws :
          LET mac == Normalized[raw].mac
              r   == find_device_by_mac(mac, "none")
          IN  (nb = "client" /\ up /\ Served(raw)
                  /\ r.kind = "device" /\ devices[r.device].port # NoPort
                  /\ devices[r.device].port[1] # 0)
                  => /\ out' = Response(200, mac, devices[r.device].port[1], TRUE,
                                        devices[r.device].name, "existing")
                     /\ calls' = calls
                     /\ registry' = registry ]_vars

\* the port 10003 of "rtr" (RegMacObj) was returned as existing
C8_Witness ==
    /\ out = Response(200, MacA, 10003, TRUE, <<"r","t","r">>, "existing")
    /\ devices = RegMacObj.devices

\* what the resolver is to return on a registry without MAC objects
ExpectedWithoutMacObjects(mac) ==
    IF LinkedAt(interfaces, mac) # {}
        THEN <<"device", interfaces[MinOf(LinkedAt(interfaces, mac))].device>>
    ELSE IF CustomFieldAt(mac) # {} THEN <<"device", MinOf(CustomFieldAt(mac))>>
    ELSE IF NameAt(mac) # {} THEN <<"device", MinOf(NameAt(mac))>>
    ELSE <<"none", 0>>

(* C9: on a registry without MAC objects the first strategy is skipped
   without error, and the resolver returns the device matched by the
   interface MAC field, else by the mac_address custom field, else by the
   device name, and None only when all of them find nothing. *)
C9_ResolvesWithoutMacObjects ==
    /\ ~schema =>
          \A mac \in Macs, fault \in {"none", "mac_addresses"} :
              LET r == find_device_by_mac(mac, fault)
              IN  <<r.kind, r.device>> = ExpectedWithoutMacObjects(mac)
    /\ \A mac \in Macs :
          find_device_by_mac(mac, "none").kind = "none"
              <=> /\ schema => LinkedAt(mac_addresses, mac) = {}
                  /\ LinkedAt(interfaces, mac) = {}
                  /\ CustomFieldAt(mac) = {}
                  /\ NameAt(mac) = {}

\* pre-4.0 registry in which one MAC resolves by its interface, one by the
\* custom field and one by the name of its placeholder
C9_Witness ==
    /\ ~schema
    /\ find_device_by_mac(MacA, "none").by = "interfaces"
    /\ find_device_by_mac(MacC, "none").by = "cf_mac_address"
    /\ find_device_by_mac(MacB, "none").by = "name"

\* the resolver reaches the registry call named by fault
CallMade(mac, fault) ==
    LET byMacObject == schema /\ LinkedAt(mac_addresses, mac) # {}
        byInterface == LinkedAt(interfaces, mac) # {}
        byField     == CustomFieldAt(mac) # {}
    IN  CASE fault = "mac_addresses"  -> schema
          [] fault = "interfaces"     -> ~byMacObject
          [] fault = "cf_mac_address" -> ~byMacObject /\ ~byInterface
          [] fault = "all"            -> ~byMacObject /\ ~byInterface /\ ~byField
          [] OTHER                    -> FALSE

(* C10: an unexpected registry error raised in any resolver strategy aborts
   resolution and reaches the caller (a 500 answer): the request neither goes
   on to a later strategy nor to an allocation. *)
C10_ResolverErrorsPropagate ==
    [][ \A raw \in ValidRaws, fault \in ResolverFaults :
          LET mac == Normalized[raw].mac IN
          (nb = "client" /\ CallMade(mac, fault) /\ Request(raw, fault, MaxCalls))
              => (out' = Error(500, mac, "resolve") /\ calls' = calls) ]_vars

\* the matches of each strategy for mac, in the order the resolver tries them
Matches(mac) ==
    << IF schema
          THEN { mac_addresses[k].device : k \in LinkedAt(mac_addresses, mac) }
          ELSE {},
       { interfaces[k].device : k \in LinkedAt(interfaces, mac) },
       CustomFieldAt(mac),
       NameAt(mac) >>

\* the strategy that makes the registry call named by fault
StrategyOf(fault) ==
    CASE fault = "mac_addresses"  -> 1
      [] fault = "interfaces"     -> 2
      [] fault = "cf_mac_address" -> 3
      [] fault = "all"            -> 4

StrategyNames == <<"mac_addresses", "interfaces", "cf_mac_address", "name">>

(* C11: when several strategies match for one MAC, the resolver returns the
   device of the first matching strategy in the order MAC object, interface
   field, custom field, device name; and it makes no call of a later strategy
   once it has a match: a later strategy's registry call that would raise
   changes nothing of the result. *)
C11_FirstMatchingStrategyWins ==
    \A mac \in Macs :
        LET m == Matches(mac)
            hits == { s \in 1..4 : m[s] # {} }
            r == find_device_by_mac(mac, "none")
        IN  hits # {} =>
              LET s == MinOf(hits) IN
              /\ r.kind = "device"
              /\ r.by = StrategyNames[s]
              /\ r.device \in m[s]
              /\ \A fault \in ResolverFaults \ {"none"} :
                    StrategyOf(fault) > s => find_device_by_mac(mac, fault) = r

\* RegMixed: the four strategies match four different devices for MacA, and
\* a request for MacA was answered with the port of the MAC object's device
C11_Witness ==
    /\ \A s \in 1..4 : Matches(MacA)[s] = {s}
    /\ Matches(MacC)[2] = {2} /\ Matches(MacC)[3] = {4} /\ Matches(MacC)[4] = {3}
    /\ out = Response(200, MacA, 10001, TRUE, <<"m","1">>, "existing")

\* the hexadecimal digits of a string, lowercased, in order
IsHex(c) == c \in {"0","1","2","3","4","5","6","7","8","9","a","b","c","d","e","f"}

HexDigits(s) == SelectSeq(Lower(s), IsHex)

\* six groups of two lowercase hexadecimal digits joined by colons
IsCanonical(m) ==
    /\ Len(m) = MAC_LEN + MAC_LEN \div 2 - 1
    /\ \A i \in 1..Len(m) : IF i % 3 = 0 THEN m[i] = ":" ELSE IsHex(m[i])

\* a spelling of 12 hexadecimal digits with colons, dashes or no separator
IsPlainSpelling(s) ==
    /\ Len(HexDigits(s)) = MAC_LEN
    /\ \A i \in 1..Len(s) : IsHex(LowerChar(s[i])) \/ s[i] \in {":", "-"}

(* C12: normalize_mac is idempotent on every input it accepts, and the
   colon-separated, dash-separated and bare spellings of the same 12
   hexadecimal digits, in upper or lower case, all give the same canonical
   value: those digits in lower case, in order, in colon-separated pairs. *)
C12_IdempotentFormatIndependent ==
    ret # NoRet =>
        /\ ret.ok => normalize_mac(ret.mac) = ret
        /\ IsPlainSpelling(arg) =>
              /\ ret.ok /\ IsCanonical(ret.mac)
              /\ HexDigits(ret.mac) = HexDigits(arg)
        /\ arg \in {RawA, RawAUpper, RawABare} => ret.mac = RawA

\* a canonical value was passed to normalize_mac and returned as it was; the
\* upper-case and the bare spelling of RawA are among the inputs
C12_Witness ==
    /\ IsCanonical(arg) /\ ret = [ok |-> TRUE, mac |-> arg]
    /\ arg \in {RawA, Spell([i \in 1..(MAC_LEN \div 2) |-> <<"1","f">>], <<":">>, FALSE)}
    /\ {RawAUpper, RawABare} \subseteq MacInputs

(* C13: normalize_mac strips every character that is not a hexadecimal
   digit and succeeds exactly when 12 hexadecimal digits remain; what it
   returns is in canonical form. *)
C13_StripsNonHexAndValidates ==
    ret # NoRet =>
        /\ ret.ok <=> Len(HexDigits(arg)) = MAC_LEN
        /\ ret.ok => (IsCanonical(ret.mac) /\ HexDigits(ret.mac) = HexDigits(arg))

\* a MAC address in some spelling: 12 hexadecimal digits and separators
IsMacAddress(raw) ==
    /\ Len(HexDigits(raw)) = MAC_LEN
    /\ \A i \in 1..Len(raw) : IsHex(LowerChar(raw[i])) \/ raw[i] \in {":", "-", "."}

(* C14: a request_port call with an invalid MAC is answered 400 before the
   connection check and before any registry call, in every service state:
   whatever nb is, whether or not the registry can be reached or a registry
   call would raise, the answer is the validation error, no call is taken
   on, and the registry is unchanged. *)
C14_InvalidMacRejectedFirst ==
    [][ \A raw \in RawMacs, fault \in ResolverFaults :
          (~IsMacAddress(raw) /\ Request(raw, fault, MaxCalls))
              => /\ out' = Error(400, NoMac, "invalid")
                 /\ calls' = calls
                 /\ registry' = registry ]_vars

(* C15: for a valid MAC, request_port answers 503 whenever nb is None, 500
   whenever a registry operation of the call fails (in the resolution, the
   max-port scan, the create or the update), and 200 with a port otherwise;
   no call in which a registry operation failed is answered 200 or goes on
   as if nothing had failed. *)
C15_OutcomeToStatus ==
    [][ /\ \A raw \in ValidRaws, fault \in ResolverFaults :
              LET mac == Normalized[raw].mac IN
              Request(raw, fault, MaxCalls) =>
                 /\ nb = "None" => out' = Error(503, mac, "unavailable")
                 /\ (nb = "client" /\ (~up \/ CallMade(mac, fault)))
                        => (out'.status = 500 /\ calls' = calls)
                 /\ (nb = "client" /\ up /\ fault = "none")
                        => out'.status \in {0, 200}
        /\ \A c \in BagToSet(calls) :
              Ends(c) =>
                 /\ out'.status \in {200, 500}
                 /\ out'.status = 200 <=> (c.pc = "write" /\ devices' # devices)
                 /\ out'.status = 200 => (up /\ out'.port = c.new_port)
                 /\ out'.status = 500 => registry' = registry ]_vars

(* C16: every port that request_port allocates (answered with existing=false)
   is at or above DEFAULT_START_PORT, whatever ports the registry holds
   (below the floor, zero, none); every port a step writes is at or above
   the floor; and when all defined ports are at or above the floor they
   remain so. *)
C16_AllocatedPortsAtOrAboveFloor ==
    [][ /\ (out'.path \in {"create", "update"} /\ \E c \in BagToSet(calls) : Ends(c))
              => (out'.status = 200 /\ ~out'.existing /\ out'.port >= DEFAULT_START_PORT)
        /\ \A p \in DefinedPorts' \ DefinedPorts : p >= DEFAULT_START_PORT
        /\ (\A p \in DefinedPorts : p >= DEFAULT_START_PORT)
              => (\A p \in DefinedPorts' : p >= DEFAULT_START_PORT) ]_vars

\* RegFields: with 9999 on one record, the record holding 0 received 10001
C16_Witness ==
    /\ out.path = "update" /\ out.port = DEFAULT_START_PORT
    /\ DefinedPorts = {9999, DEFAULT_START_PORT}
    /\ devices[2].name = <<"l","a","b">>

\* a step of the service that is a health_check call
HealthCall == health_check /\ UNCHANGED <<up, arg, ret, probe>>

(* C18: health_check never fails: it can be called in every state (client
   unavailable, registry down, calls in flight, after failed requests), it
   answers 200 with the status, the connection flag and the timestamp, and
   it changes nothing: not the registry, not the client, not the calls in
   flight. *)
C18_HealthNeverFails ==
    /\ [](ENABLED HealthCall)
    /\ [][ HealthCall =>
              /\ out'.status = 200 /\ out'.path = "healthy"
              /\ out'.netbox_connected \in BOOLEAN
              /\ registry' = registry /\ calls' = calls /\ up' = up ]_vars

\* health was answered while the registry was down and a call was in flight
C18_Witness ==
    /\ out.path = "healthy" /\ out.status = 200
    /\ ~up /\ calls # EmptyBag

(* C19: health_check reports whether the registry can be reached at the time
   of the call: the connection flag is false whenever the registry is
   unreachable, and true whenever it is reachable through the client. *)
C19_HealthReportsReachability ==
    [][ HealthCall =>
          /\ ~up => ~out'.netbox_connected
          /\ (up /\ nb = "client") => out'.netbox_connected ]_vars

(* C20: no request_port or health_check call, whatever its outcome, changes
   the registry client; a call that ends in 400, 500 or 503 leaves the
   registry contents as they were and leaves nothing of itself behind, so
   the next request finds what it would have found without it. *)
C20_FailuresLeaveNoTrace ==
    [][ /\ nb' = nb
        /\ out'.status \in {400, 500, 503} =>
              /\ registry' = registry
              /\ \A c \in BagToSet(calls') : CopiesIn(c, calls') <= CopiesIn(c, calls) ]_vars

\* a write failed and the client is still there for the next request
C20_Witness ==
    /\ out.status = 500 /\ out.path = "write"
    /\ nb = "client" /\ calls = EmptyBag

\* a request for mac is answered from a record with an assigned port
Settled(mac) ==
    LET r == find_device_by_mac(mac, "none")
    IN  r.kind = "device" /\ IsAssigned(devices[r.device].port)

\* the port such a request is answered with (0: none)
AnswerPort(mac) ==
    LET r == find_device_by_mac(mac, "none")
    IN  IF r.kind = "device" /\ IsAssigned(devices[r.device].port)
        THEN devices[r.device].port[1] ELSE 0

(* C17: retries converge.  With a registry client, once the registry stays
   reachable the retried request for a MAC eventually succeeds and from
   then on the MAC is answered from a record with a port; a successful call
   for a MAC that resolves to a record without a port completes that record
   and creates no second one; and once a MAC is answered from a record with
   a port, every later call returns that same port with existing=true. *)
C17_RetriesConverge ==
    /\ \A raw \in RetryRaws :
          (nb = "client" /\ <>[]up) => <>[]Settled(Normalized[raw].mac)
    /\ [][ \A raw \in RetryRaws, c \in BagToSet(calls) :
              LET mac == Normalized[raw].mac IN
              (c.mac = mac /\ c.device # 0 /\ Ends(c) /\ out'.status = 200)
                  => /\ Len(devices') = Len(devices)
                     /\ devices'[c.device].port = <<out'.port>>
                     /\ find_device_by_mac(mac, "none")'.device = c.device ]_vars
    /\ [][ \A raw \in RetryRaws :
              LET mac == Normalized[raw].mac IN
              Settled(mac) =>
                  /\ Settled(mac)' /\ AnswerPort(mac)' = AnswerPort(mac)
                  /\ (nb = "client" /\ up /\ Served(raw))
                        => (out'.existing /\ out'.port = AnswerPort(mac)) ]_vars

\* the record "edge", registered without a port, was completed by an earlier
\* call, and a later call for its MAC returned that port as existing, after
\* an outage
C17_Witness ==
    /\ out.path = "existing" /\ out.mac = MacA
    /\ out.device_name = <<"e","d","g","e">>
    /\ Len(devices) = Len(RegLegacy.devices)

(* C21: no caching.  Every request_port call is answered from the registry
   as it is at the time of that call: an existing=true response carries the
   port and the name of the record the MAC resolves to now, also when an
   operator changed that port since the previous answer; and when the record
   was removed, or holds no port, the call is not answered existing=true. *)
C21_AnsweredFromRegistryNow ==
    [][ \A raw \in ValidRaws :
          LET mac == Normalized[raw].mac
              r   == find_device_by_mac(mac, "none")
          IN  (nb = "client" /\ up /\ Served(raw)) =>
                /\ (out'.status = 200 /\ out'.existing) =>
                      /\ r.kind = "device"
                      /\ devices[r.device].port = <<out'.port>>
                      /\ devices[r.device].name = out'.device_name
                /\ (r.kind = "none" \/ ~IsAssigned(devices[r.device].port)) =>
                      (out' = NoResp /\ Accepts(mac, r.device)) ]_vars

\* the port of "rtr" was changed by hand after it had been returned, and the
\* next call returned the changed port
C21_Witness ==
    /\ out = Response(200, MacA, EditedPort[1], TRUE, <<"r","t","r">>, "existing")
    /\ RegMacObj.devices[1].port # EditedPort

\* the step creates exactly one device record and changes no other
IsCreate ==
    /\ Len(devices') = Len(devices) + 1
    /\ SubSeq(devices', 1, Len(devices)) = devices

\* the step changes the port of exactly one device record and nothing else
IsUpdate ==
    /\ Len(devices') = Len(devices)
    /\ Cardinality({ i \in 1..Len(devices) : devices'[i] # devices[i] }) = 1
    /\ \A i \in 1..Len(devices) :
          devices'[i] = [devices[i] EXCEPT !.port = devices'[i].port]

(* C22: each request_port call makes at most one registry write, one create
   or one update and never both: the only step that changes the registry is
   the last step of a call, which answers 200 with existing=false and makes
   exactly one create or exactly one update (an update that writes the port
   the record already holds leaves the registry as it is); every step with
   another outcome (existing=true, 400, 503, 500) writes nothing. *)
C22_AtMostOneWritePerCall ==
    [][ /\ registry' # registry =>
              /\ \E c \in BagToSet(calls) : c.pc = "write" /\ Ends(c)
              /\ out'.status = 200 /\ ~out'.existing
              /\ <<mac_addresses', interfaces', schema', nb'>>
                    = <<mac_addresses, interfaces, schema, nb>>
              /\ (IsCreate /\ ~IsUpdate) \/ (IsUpdate /\ ~IsCreate)
        /\ out'.path = "create" => IsCreate
        /\ out'.path = "update" =>
              \/ IsUpdate
              \/ /\ registry' = registry
                 /\ \E i \in 1..Len(devices) : devices[i].port = <<out'.port>>
        /\ (out'.status \in {400, 500, 503} \/ out'.path = "existing")
              => registry' = registry ]_vars

\* RegFields: one call updated the record "lab", a later one created the
\* placeholder of MacA
C22_Witness ==
    /\ out.path = "create" /\ out.mac = MacA
    /\ Len(devices) = Len(RegFields.devices) + 1
    /\ devices[2].name = <<"l","a","b">> /\ devices[2].port = <<DEFAULT_START_PORT>>

\* calls for other MACs are in flight, none for mac
OthersInFlight(mac) ==
    /\ calls # EmptyBag
    /\ \A c \in BagToSet(calls) : c.mac # mac

(* C23 as claimed: a lookup for a MAC whose record already has a port, made
   while calls for other MACs are in flight at any point of their run,
   returns the recorded port with existing=true at once, writes nothing and
   leaves the calls in flight as they are. *)
C23_AssignedLookupUnserialized ==
    [][ \A raw \in ValidRaws :
          LET mac == Normalized[raw].mac
              r   == find_device_by_mac(mac, "none")
          IN  (nb = "client" /\ up /\ OthersInFlight(mac) /\ Served(raw)
                  /\ r.kind = "device" /\ devices[r.device].port # NoPort)
                  => /\ out'.status = 200 /\ out'.existing
                     /\ <<out'.port>> = devices[r.device].port
                     /\ calls' = calls /\ registry' = registry ]_vars

(* C23 as amended: the same for a MAC whose record holds a defined port
   other than 0. *)
C23_NonZeroLookupUnserialized ==
    [][ \A raw \in ValidRaws :
          LET mac == Normalized[raw].mac
              r   == find_device_by_mac(mac, "none")
          IN  (nb = "client" /\ up /\ OthersInFlight(mac) /\ Served(raw)
                  /\ r.kind = "device" /\ devices[r.device].port # NoPort
                  /\ devices[r.device].port[1] # 0)
                  => /\ out'.status = 200 /\ out'.existing
                     /\ <<out'.port>> = devices[r.device].port
                     /\ calls' = calls /\ registry' = registry ]_vars

\* RegMacObj: the lookup of MacA was answered with its port while the
\* allocation for MacC was between its read of the maximum and its write
C23_Witness ==
    /\ out = Response(200, MacA, 10003, TRUE, <<"r","t","r">>, "existing")
    /\ \E c \in BagToSet(calls) : c.mac = MacC /\ c.pc = "write"

(* C24: no response contains the registry credential: the body of an error
   response is the same in any two runs that differ only in the registry
   token and in the places where the text of a registry exception carries
   it, and the token is no part of the body. *)
C24_ResponsesIndependentOfToken ==
    ret # NoRet =>
        /\ \A token \in Tokens : HandlerResponse(arg, token) = ret
        /\ \A i \in 1..Len(ret.detail) : ret.detail[i] # arg.token

\* the registry holds nothing but placeholder records that request_port
\* created for MAC addresses: probe-<12 hex digits>, a port, no links
PlaceholdersOnly ==
    /\ mac_addresses = <<>> /\ interfaces = <<>>
    /\ \A i \in 1..Len(devices) :
          /\ \E m \in Macs : IsMacAddress(m) /\ devices[i].name = device_name(m)
          /\ devices[i].cf_mac = NoMac
          /\ IsAssigned(devices[i].port)

(* C25: the device-name fallback never crosses MACs.  In a registry of
   placeholder records only, find_device_by_mac(m) returns no record or the
   record created for m; and a request for a MAC that has no placeholder is
   not answered existing=true. *)
C25_NameFallbackStaysWithinMac ==
    [][ PlaceholdersOnly =>
          \A raw \in ValidRaws :
            LET mac == Normalized[raw].mac
                r   == find_device_by_mac(mac, "none")
            IN  /\ r.kind = "device" => devices[r.device].name = device_name(mac)
                /\ (nb = "client" /\ up /\ Served(raw)
                       /\ \A i \in 1..Len(devices) : devices[i].name # device_name(mac))
                      => ~(out'.status = 200 /\ out'.existing) ]_vars

(* C26: port assignments are durable.  A successful request_port call for a
   MAC leaves the registry answering that MAC with the port the call
   returned, and once the registry answers a MAC with a port, no later step
   of the service (requests for other MACs, allocations, lookups, failed
   calls) changes that answer: every later successful call for the MAC
   returns the same port. *)
C26_AssignmentsDurable ==
    [][ \A m \in Macs :
          /\ (out'.status = 200 /\ out'.mac = m) => AnswerPort(m)' = out'.port
          /\ Settled(m) => AnswerPort(m)' = AnswerPort(m) ]_vars

(* C27: a failed allocation hands out nothing.  When get_max_assigned_port,
   devices.create or save raises, the call is answered 500 for its MAC
   without a port and not as existing; the registry holds the same records
   and ports as before, and the port the call had computed (and put on its
   device object before save) is not what a later request for the MAC is
   answered with. *)
C27_FailedAllocationHandsOutNothing ==
    [][ \A c \in BagToSet(calls) :
          (Ends(c) /\ out'.status = 500) =>
              /\ out' = Error(500, c.mac, out'.path)
              /\ out'.path \in {"max", "write"}
              /\ devices' = devices /\ registry' = registry
              /\ AnswerPort(c.mac)' = AnswerPort(c.mac)
              /\ (c.pc = "write" /\ AnswerPort(c.mac) # c.new_port)
                    => AnswerPort(c.mac)' # c.new_port ]_vars

\* save() failed on a resolved record without a port: the call was answered
\* 500 and the record still has no port
C27_Witness ==
    /\ out.status = 500 /\ out.path = "write" /\ out.port = 0
    /\ LET r == find_device_by_mac(out.mac, "none")
       IN  r.kind = "device" /\ ~IsAssigned(devices[r.device].port)

\* the steps of the client that have run and returned
StepsDone ==
    { probe.ran[i] : i \in 1..(Len(probe.ran) - (IF probe.raised THEN 1 ELSE 0)) }

(* C28: the bootstrap client runs its steps in a fixed order and stops at
   the first failure.  The steps run so far are a prefix of the order of
   main; the autossh service is written only after request_proxy_port
   returned a non-zero integer port, and for that port; the callback is
   posted only after the service was created and started; the marker is
   written only after the callback step returned; main returns 0 exactly
   when the six steps from read_config to call_awx_callback all returned,
   and 1 when one raised, that one being the last step run; and nothing
   runs after main returned. *)
C28_StepsInOrderStopAtFirstFailure ==
    /\ probe.ran = SubSeq(Steps, 1, Len(probe.ran))
    /\ probe.service # NoPortData =>
          /\ "request_proxy_port" \in StepsDone
          /\ probe.service = probe.proxy_port
          /\ probe.service.kind \in {"int", "bool"} /\ probe.service.value # 0
    /\ probe.posted =>
          ("create_autossh_service" \in StepsDone /\ probe.started)
    /\ probe.marker => "call_awx_callback" \in StepsDone
    /\ probe.rc = 0 <=>
          (probe.pc = "returned"
             /\ \A i \in 1..(Len(Steps) - 1) : Steps[i] \in StepsDone)
    /\ probe.rc = 1 <=> probe.raised
    /\ probe.pc = "returned" =>
          (probe.rc \in {0, 1} /\ ~ENABLED NextProbe)

\* main returned 0 although the marker could not be written; the service
\* runs for the port 10002 and the callback was posted
C28_Witness ==
    /\ probe.rc = 0 /\ ~probe.marker /\ probe.posted
    /\ probe.service = PortData("int", 10002) /\ probe.started

====
